---- MODULE Spec2Model ----
(***************************************************************************)
(* Model of the browser-side HTTP client layer: ApiErrorHandler,           *)
(* ApiAuthService (src/src/services/implementations/ApiErrorHandler.ts)    *)
(* and ApiChatService (src/unnamed/part_000).                              *)
(*                                                                         *)
(* JavaScript values are tagged records; strings are TLA+ strings, so      *)
(* concatenation, startsWith, includes and join are computed on the real   *)
(* characters.                                                             *)
(***************************************************************************)
EXTENDS Integers, Sequences, FiniteSets, TLC

VARIABLES
    token,        \* value held by the shared TokenManager singleton
    authBaseUrl,  \* ApiAuthService.baseUrl
    chatBaseUrl,  \* ApiChatService.baseUrl
    inflight,     \* per caller slot: the request awaiting its response, or Idle
    last,         \* how the most recently settled public operation ended
    urlCur,       \* most recent buildUrl call (client, path, result)
    urlPrev       \* the buildUrl call before it

vars == <<token, authBaseUrl, chatBaseUrl, inflight, last, urlCur, urlPrev>>

----------------------------------------------------------------------------
(* Bounds *)

MaxErrors == 2      \* longest `errors` array in a response body
MaxPathLen == 2     \* longest free-form endpoint path handed to buildUrl
NSlots == 2         \* caller slots available to concurrent public calls

----------------------------------------------------------------------------
(* JavaScript values *)

Undefined == [t |-> "undefined"]
Null == [t |-> "null"]
Str(s) == [t |-> "string", s |-> s]
Num(n) == [t |-> "number", n |-> n]
Arr(a) == [t |-> "array", a |-> a]
Obj(e, es, u, tk) == [t |-> "object", error |-> e, errors |-> es, user |-> u, token |-> tk]

\* new Error(message): an Error object without status and body
NewError(msg) == [t |-> "error", message |-> msg, status |-> Undefined, body |-> Undefined]

\* JavaScript truthiness (ToBoolean)
Truthy(v) ==
    CASE v.t = "undefined" -> FALSE
      [] v.t = "null" -> FALSE
      [] v.t = "string" -> v.s # ""
      [] v.t = "number" -> v.n # 0
      [] OTHER -> TRUE

\* property read v[field] on a non-nullish value
Get(v, field) ==
    CASE v.t = "object" /\ field = "error" -> v.error
      [] v.t = "object" /\ field = "errors" -> v.errors
      [] v.t = "object" /\ field = "user" -> v.user
      [] v.t = "object" /\ field = "token" -> v.token
      [] v.t = "error" /\ field = "status" -> v.status
      [] v.t = "error" /\ field = "body" -> v.body
      [] v.t = "error" /\ field = "message" -> Str(v.message)
      [] OTHER -> Undefined

\* String(v), as used by template literals
JsString(v) ==
    CASE v.t = "string" -> v.s
      [] v.t = "undefined" -> "undefined"
      [] v.t = "null" -> "null"
      [] v.t = "error" -> IF v.message = "" THEN "Error" ELSE "Error: " \o v.message
      [] OTHER -> "[object Object]"

\* String.prototype.startsWith
startsWith(s, p) == Len(s) >= Len(p) /\ SubSeq(s, 1, Len(p)) = p

\* String.prototype.includes
includes(s, sub) ==
    \E i \in 1..(Len(s) - Len(sub) + 1) : SubSeq(s, i, i + Len(sub) - 1) = sub

\* Array.prototype.join on an array of strings
RECURSIVE join(_, _)
join(a, sep) ==
    IF Len(a) = 0 THEN ""
    ELSE IF Len(a) = 1 THEN a[1]
    ELSE a[1] \o sep \o join(Tail(a), sep)

\* encodeURIComponent on the characters used by the model's identifiers
Unreserved ==
    {"a", "b", "c", "d", "e", "f", "g", "h", "i", "j", "k", "l", "m", "n",
     "o", "p", "q", "r", "s", "t", "u", "v", "w", "x", "y", "z",
     "0", "1", "2", "3", "4", "5", "6", "7", "8", "9",
     "-", "_", ".", "!", "~", "*", "'", "(", ")"}

PercentEncode(c) ==
    CASE c = "/" -> "%2F"
      [] c = " " -> "%20"
      [] c = "?" -> "%3F"
      [] c = "#" -> "%23"
      [] c = "%" -> "%25"
      [] OTHER -> c

RECURSIVE encodeURIComponent(_)
encodeURIComponent(s) ==
    IF Len(s) = 0 THEN ""
    ELSE LET c == SubSeq(s, 1, 1)
         IN (IF c \in Unreserved THEN c ELSE PercentEncode(c))
              \o encodeURIComponent(SubSeq(s, 2, Len(s)))

----------------------------------------------------------------------------
(* ApiErrorHandler *)

DefaultMessage == "An unexpected error occurred. Please try again later."

\* variant: the raised error's own message wins over the status table
handle_useMessage(error) ==
    IF Truthy(error) /\ error.t = "error" /\ error.message # "" THEN error.message
    ELSE DefaultMessage

handle(error) ==
    IF Truthy(error) /\ error.t \in {"object", "array", "error"} THEN
        LET status == Get(error, "status")
        IN CASE status = Num(400) -> "Invalid request parameters. Please check your input."
             [] status = Num(401) -> "Authentication required. Please log in again."
             [] status = Num(403) -> "You do not have permission to perform this action."
             [] status = Num(404) -> "The requested resource could not be found."
             [] status = Num(422) -> "Validation failed. Please correct the highlighted fields."
             [] status = Num(500) -> "A server error occurred. Please try again later."
             [] OTHER -> DefaultMessage
    ELSE IF error.t = "string" THEN error.s
    ELSE DefaultMessage

----------------------------------------------------------------------------
(* Request pipeline, shared by the two clients *)

\* constructors: config.baseUrl || 'http://localhost:3000' (auth), config.baseUrl (chat)
AuthServiceBaseUrl(configBaseUrl) ==
    IF configBaseUrl # "" THEN configBaseUrl ELSE "http://localhost:3000"

ChatServiceBaseUrl(configBaseUrl) == configBaseUrl

\* variant: a slash is put in front of every endpoint
buildUrl_alwaysSlash(baseUrl, endpoint) == baseUrl \o "/" \o endpoint

buildUrl(baseUrl, endpoint) ==
    baseUrl \o (IF startsWith(endpoint, "/") THEN endpoint ELSE "/" \o endpoint)

\* variant: the errors array is looked at before the error field
extractErrorMessage_errorsFirst(statusText, payload) ==
    LET fallback == IF statusText # "" THEN statusText ELSE "Request failed"
    IN IF ~Truthy(payload) THEN fallback
       ELSE LET e == Get(payload, "error")
                es == Get(payload, "errors")
            IN IF es.t = "array" /\ Len(es.a) # 0 THEN join(es.a, "; ")
               ELSE IF Truthy(e) /\ e.t = "string" THEN e.s
               ELSE fallback

extractErrorMessage(statusText, payload) ==
    LET fallback == IF statusText # "" THEN statusText ELSE "Request failed"
    IN IF ~Truthy(payload) THEN fallback
       ELSE LET e == Get(payload, "error")
                es == Get(payload, "errors")
            IN IF Truthy(e) /\ e.t = "string" THEN e.s
               ELSE IF es.t = "array" /\ Len(es.a) # 0 THEN join(es.a, "; ")
               ELSE fallback

\* TokenManager: a single shared cell with get / set / clear
getToken(store) == store
setToken(t) == t
clearToken == Null

\* options.headers of a public operation: none of them passes any
NoHeaders == [authorization |-> Undefined]

\* variant: the token is injected only when the caller already set the header
makeHeaders_inverted(optHeaders, store) ==
    LET tk == getToken(store)
    IN [contentType |-> "application/json",
        authorization |->
            IF Truthy(tk) /\ optHeaders.authorization # Undefined
            THEN Str("Bearer " \o JsString(tk))
            ELSE optHeaders.authorization]

\* header assembly of makeRequest
makeHeaders(optHeaders, store) ==
    LET tk == getToken(store)
    IN [contentType |-> "application/json",
        authorization |->
            IF Truthy(tk) /\ optHeaders.authorization = Undefined
            THEN Str("Bearer " \o JsString(tk))
            ELSE optHeaders.authorization]

\* the synchronous first half of makeRequest: what is handed to fetch
makeRequest_send(client, baseUrl, endpoint, method, optHeaders, store) ==
    [url |-> buildUrl(baseUrl, endpoint),
     method |-> method,
     credentials |-> IF client = "auth" THEN "include" ELSE "default",
     headers |-> makeHeaders(optHeaders, store)]

Throws == [t |-> "throws"]

ok(resp) == resp.status >= 200 /\ resp.status <= 299

\* body parsing of makeRequest, by declared content type
readBody(resp) ==
    IF includes(resp.ct, "application/json")
    THEN (IF resp.json = Throws THEN Null ELSE resp.json)
    ELSE (IF resp.text = Throws THEN Null ELSE resp.text)

Returned(v) == [ok |-> TRUE, value |-> v]
Thrown(e) == [ok |-> FALSE, value |-> e]

\* the second half of makeRequest: from the outcome of fetch to return / throw
makeRequest(resp) ==
    IF resp.kind = "network" THEN
        LET fetchError == resp.fetchError
            m == Get(fetchError, "message")
        IN Thrown(NewError("Network request failed: "
                           \o (IF Truthy(m) THEN m.s ELSE JsString(fetchError))))
    ELSE
        LET body == readBody(resp)
        IN IF ~ok(resp)
           THEN Thrown([NewError(extractErrorMessage(resp.statusText, body))
                           EXCEPT !.status = Num(resp.status), !.body = body])
           ELSE Returned(body)

----------------------------------------------------------------------------
(* Public operations: the code that runs once makeRequest has settled.     *)
(* p is makeRequest's outcome, store the token store at that moment; the   *)
(* result is how the operation's promise settles and the new token store.  *)

Resolved(v, store) == [outcome |-> "resolved", value |-> v, token |-> store]
Rejected(e, store) == [outcome |-> "rejected", value |-> e, token |-> store]

\* reading a property of null throws a TypeError
TypeErrorOnNull == NewError("Cannot read properties of null")

\* variant: a failed login also drops the stored token
login_clearOnFailure(p, store) ==
    IF p.ok THEN
        IF p.value.t = "null"
        THEN Rejected(NewError(handle(TypeErrorOnNull)), clearToken)
        ELSE Resolved(Get(p.value, "user"), setToken(Get(p.value, "token")))
    ELSE Rejected(NewError(handle(p.value)), clearToken)

\* try { res = await makeRequest(...); setToken(res.token); return res.user }
\* catch (error) { throw new Error(handle(error)) }
login(p, store) ==
    IF p.ok THEN
        IF p.value.t = "null"
        THEN Rejected(NewError(handle(TypeErrorOnNull)), store)
        ELSE Resolved(Get(p.value, "user"), setToken(Get(p.value, "token")))
    ELSE Rejected(NewError(handle(p.value)), store)

register(p, store) ==
    IF p.ok THEN
        IF p.value.t = "null"
        THEN Rejected(NewError(handle(TypeErrorOnNull)), store)
        ELSE Resolved(Get(p.value, "user"), setToken(Get(p.value, "token")))
    ELSE Rejected(NewError(handle(p.value)), store)

\* variant: clearToken() sits in the try block, after the await
logout_clearInTry(p, store) ==
    IF p.ok THEN Resolved(Undefined, clearToken)
    ELSE LET message == handle(p.value) IN Resolved(Undefined, store)

\* try { await makeRequest(...) } catch (e) { handle(e); warn } finally { clearToken() }
logout(p, store) ==
    IF p.ok THEN Resolved(Undefined, clearToken)
    ELSE LET message == handle(p.value) IN Resolved(Undefined, clearToken)

refreshToken(p, store) ==
    IF p.ok THEN
        IF p.value.t = "null"
        THEN Rejected(NewError(handle(TypeErrorOnNull)), store)
        ELSE Resolved(Get(p.value, "user"), setToken(Get(p.value, "token")))
    ELSE Rejected(NewError(handle(p.value)), store)

\* variant: every failure is taken for an invalid session and drops the token
getCurrentUser_clearOnAnyFailure(p, store) ==
    IF p.ok THEN Resolved(p.value, store)
    ELSE IF Get(p.value, "status") \in {Num(401), Num(403)}
         THEN Resolved(Null, clearToken)
         ELSE Rejected(NewError(handle(p.value)), clearToken)

\* variant: only 401 is treated as "no user"
getCurrentUser_only401(p, store) ==
    IF p.ok THEN Resolved(p.value, store)
    ELSE IF Get(p.value, "status") = Num(401)
         THEN Resolved(Null, clearToken)
         ELSE Rejected(NewError(handle(p.value)), store)

\* try { return await makeRequest(...) }
\* catch (e) { if (e.status is 401 or 403) { clearToken(); return null } throw new Error(handle(e)) }
getCurrentUser(p, store) ==
    IF p.ok THEN Resolved(p.value, store)
    ELSE IF Get(p.value, "status") \in {Num(401), Num(403)}
         THEN Resolved(Null, clearToken)
         ELSE Rejected(NewError(handle(p.value)), store)

\* variant: the response body is dropped, as in claimConversation
getConversations_discard(p, store) ==
    IF p.ok THEN Resolved(Undefined, store) ELSE Rejected(p.value, store)

\* The chat operations below are written
\*     try { return this.makeRequest(...) } catch (error) { throw new Error(handle(error)) }
\* The promise is returned without await, so the caller's promise adopts
\* makeRequest's outcome and the catch block never sees a rejection.
getConversations(p, store) ==
    IF p.ok THEN Resolved(p.value, store) ELSE Rejected(p.value, store)

getConversation(p, store) ==
    IF p.ok THEN Resolved(p.value, store) ELSE Rejected(p.value, store)

createConversation(p, store) ==
    IF p.ok THEN Resolved(p.value, store) ELSE Rejected(p.value, store)

getMessages(p, store) ==
    IF p.ok THEN Resolved(p.value, store) ELSE Rejected(p.value, store)

sendMessage(p, store) ==
    IF p.ok THEN Resolved(p.value, store) ELSE Rejected(p.value, store)

getExpertQueue(p, store) ==
    IF p.ok THEN Resolved(p.value, store) ELSE Rejected(p.value, store)

\* try { await this.makeRequest(...) } catch (error) { throw new Error(handle(error)) }
claimConversation(p, store) ==
    IF p.ok THEN Resolved(Undefined, store)
    ELSE Rejected(NewError(handle(p.value)), store)

unclaimConversation(p, store) ==
    IF p.ok THEN Resolved(Undefined, store)
    ELSE Rejected(NewError(handle(p.value)), store)

getExpertProfile(p, store) ==
    IF p.ok THEN Resolved(p.value, store) ELSE Rejected(p.value, store)

updateExpertProfile(p, store) ==
    IF p.ok THEN Resolved(p.value, store) ELSE Rejected(p.value, store)

getExpertAssignmentHistory(p, store) ==
    IF p.ok THEN Resolved(p.value, store) ELSE Rejected(p.value, store)

AuthOps == {"login", "register", "logout", "refreshToken", "getCurrentUser"}

ChatOps ==
    {"getConversations", "getConversation", "createConversation", "getMessages",
     "sendMessage", "getExpertQueue", "claimConversation", "unclaimConversation",
     "getExpertProfile", "updateExpertProfile", "getExpertAssignmentHistory"}

UnimplementedOps == {"updateConversation", "deleteConversation", "markMessageAsRead"}

RequestOps == AuthOps \cup ChatOps

Client(op) == IF op \in AuthOps THEN "auth" ELSE "chat"

\* the endpoint each operation passes to makeRequest
Endpoint(op, id) ==
    CASE op = "login" -> "/auth/login"
      [] op = "register" -> "/auth/register"
      [] op = "logout" -> "/auth/logout"
      [] op = "refreshToken" -> "/auth/refresh"
      [] op = "getCurrentUser" -> "/auth/me"
      [] op = "getConversations" -> "/conversations"
      [] op = "getConversation" -> "/conversations/" \o encodeURIComponent(id)
      [] op = "createConversation" -> "/conversations"
      [] op = "getMessages" -> "/conversations/" \o encodeURIComponent(id) \o "/messages"
      [] op = "sendMessage" -> "/messages"
      [] op = "getExpertQueue" -> "/expert/queue"
      [] op = "claimConversation" ->
             "/expert/conversations/" \o encodeURIComponent(id) \o "/claim"
      [] op = "unclaimConversation" ->
             "/expert/conversations/" \o encodeURIComponent(id) \o "/unclaim"
      [] op = "getExpertProfile" -> "/expert/profile"
      [] op = "updateExpertProfile" -> "/expert/profile"
      [] op = "getExpertAssignmentHistory" -> "/expert/assignments/history"

\* the HTTP method each operation passes to makeRequest
Method(op) ==
    CASE op \in {"getCurrentUser", "getConversations", "getConversation", "getMessages",
                 "getExpertQueue", "getExpertProfile", "getExpertAssignmentHistory"} -> "GET"
      [] op = "updateExpertProfile" -> "PUT"
      [] OTHER -> "POST"

\* operations whose endpoint embeds a caller-supplied identifier
TakesId(op) ==
    op \in {"getConversation", "getMessages", "claimConversation", "unclaimConversation"}

Settlement(op, p, store) ==
    CASE op = "login" -> login(p, store)
      [] op = "register" -> register(p, store)
      [] op = "logout" -> logout(p, store)
      [] op = "refreshToken" -> refreshToken(p, store)
      [] op = "getCurrentUser" -> getCurrentUser(p, store)
      [] op = "getConversations" -> getConversations(p, store)
      [] op = "getConversation" -> getConversation(p, store)
      [] op = "createConversation" -> createConversation(p, store)
      [] op = "getMessages" -> getMessages(p, store)
      [] op = "sendMessage" -> sendMessage(p, store)
      [] op = "getExpertQueue" -> getExpertQueue(p, store)
      [] op = "claimConversation" -> claimConversation(p, store)
      [] op = "unclaimConversation" -> unclaimConversation(p, store)
      [] op = "getExpertProfile" -> getExpertProfile(p, store)
      [] op = "updateExpertProfile" -> updateExpertProfile(p, store)
      [] op = "getExpertAssignmentHistory" -> getExpertAssignmentHistory(p, store)

----------------------------------------------------------------------------
(* Inputs: what the backend and the network can answer *)

Statuses == {200, 201, 400, 401, 403, 404, 418, 422, 500, 503}
StatusTexts == {"", "Status Text"}
JsonTypes == {"application/json; charset=utf-8"}
TextTypes == {"text/plain", ""}
ErrorItems == {"A", "B"}
Ids == {"1", "a/b"}

ErrorsArrays == UNION {[1..n -> ErrorItems] : n \in 0..MaxErrors}

ErrorBodies ==
    {Obj(e, es, Undefined, Undefined) :
        e \in {Undefined, Str(""), Str("X"), Num(5)},
        es \in {Undefined} \cup {Arr(a) : a \in ErrorsArrays}}

UserBodies ==
    {Obj(Undefined, Undefined, u, tk) :
        u \in {Undefined, Str("alice")},
        tk \in {Undefined, Str(""), Str("t1")}}

JsonBodies ==
    {Throws, Null, Str("hi"), Arr(<<"1">>)} \cup ErrorBodies \cup UserBodies

TextBodies == {Throws, Str(""), Str("oops")}

HttpResponses ==
    {[kind |-> "http", status |-> st, statusText |-> tx, ct |-> ct,
      json |-> j, text |-> Str("{}")] :
        st \in Statuses, tx \in StatusTexts, ct \in JsonTypes, j \in JsonBodies}
    \cup
    {[kind |-> "http", status |-> st, statusText |-> tx, ct |-> ct,
      json |-> Throws, text |-> b] :
        st \in Statuses, tx \in StatusTexts, ct \in TextTypes, b \in TextBodies}

FetchErrors == {NewError("Failed to fetch"), NewError(""), Str("offline")}

NetworkFailures == {[kind |-> "network", fetchError |-> fe] : fe \in FetchErrors}

Responses == HttpResponses \cup NetworkFailures

InitialTokens == {Null, Str("t0")}
MainConfigs == {"https://api.example.com"}

----------------------------------------------------------------------------
(* State machine *)

Slots == 1..NSlots
Idle == [op |-> "idle"]
NoLast == [op |-> "none"]
NoUrl == [client |-> "none"]

Init ==
    /\ token \in InitialTokens
    /\ \E c \in MainConfigs : authBaseUrl = AuthServiceBaseUrl(c)
    /\ \E c \in MainConfigs : chatBaseUrl = ChatServiceBaseUrl(c)
    /\ inflight = [s \in Slots |-> Idle]
    /\ last = NoLast
    /\ urlCur = NoUrl
    /\ urlPrev = NoUrl

\* a caller invokes a public operation: it runs up to the await of fetch
Call(s, op, id) ==
    /\ inflight[s] = Idle
    /\ inflight' = [inflight EXCEPT ![s] =
          [op |-> op,
           request |-> makeRequest_send(Client(op),
                          IF Client(op) = "auth" THEN authBaseUrl ELSE chatBaseUrl,
                          Endpoint(op, id), Method(op), NoHeaders, token)]]
    /\ last' = NoLast
    /\ UNCHANGED <<token, authBaseUrl, chatBaseUrl, urlCur, urlPrev>>

\* fetch settles and the operation runs to its end
Settle(s, resp) ==
    /\ inflight[s] # Idle
    /\ LET op == inflight[s].op
           p == makeRequest(resp)
           r == Settlement(op, p, token)
       IN /\ token' = r.token
          /\ last' = [op |-> op, resp |-> resp, pipe |-> p,
                      outcome |-> r.outcome, value |-> r.value,
                      tokenBefore |-> token,
                      sent |-> inflight[s].request.headers.authorization]
    /\ inflight' = [inflight EXCEPT ![s] = Idle]
    /\ UNCHANGED <<authBaseUrl, chatBaseUrl, urlCur, urlPrev>>

\* updateConversation, deleteConversation, markMessageAsRead: throw at once
NotImplemented(s, op) ==
    /\ inflight[s] = Idle
    /\ last' = [op |-> op, resp |-> [kind |-> "none"], pipe |-> Returned(Undefined),
                outcome |-> "rejected",
                value |-> NewError(op \o " method not implemented"),
                tokenBefore |-> token, sent |-> Undefined]
    /\ UNCHANGED <<token, authBaseUrl, chatBaseUrl, inflight, urlCur, urlPrev>>

\* sequential callers: every call is awaited before the next one is made,
\* so a single slot is ever busy
SeqSlots == {1}

Next ==
    \/ \E s \in SeqSlots, op \in RequestOps :
          \E id \in (IF TakesId(op) THEN Ids ELSE {""}) : Call(s, op, id)
    \/ \E s \in SeqSlots, resp \in Responses : Settle(s, resp)
    \/ \E s \in SeqSlots, op \in UnimplementedOps : NotImplemented(s, op)

Spec == Init /\ [][Next]_vars

TypeOK ==
    /\ token.t \in {"null", "undefined", "string"}
    /\ \A s \in Slots : inflight[s].op \in RequestOps \cup {"idle"}
    /\ last.op \in RequestOps \cup UnimplementedOps \cup {"none"}

----------------------------------------------------------------------------
(* buildUrl on its own: every configured base URL, every endpoint path *)

UrlConfigs == {"", "https://api.example.com", "http://h", "http://h/"}
PathChars == {"/", "c"}

RECURSIVE concat(_)
concat(cs) == IF Len(cs) = 0 THEN "" ELSE cs[1] \o concat(Tail(cs))

Paths ==
    {concat(cs) : cs \in UNION {[1..n -> PathChars] : n \in 0..MaxPathLen}}
    \cup {"conversations", "/conversations"}

InitUrl ==
    /\ token \in InitialTokens
    /\ \E c \in UrlConfigs : authBaseUrl = AuthServiceBaseUrl(c)
    /\ \E c \in UrlConfigs : chatBaseUrl = ChatServiceBaseUrl(c)
    /\ inflight = [s \in Slots |-> Idle]
    /\ last = NoLast
    /\ urlCur = NoUrl
    /\ urlPrev = NoUrl

\* one call of a client's buildUrl
BuildUrl(client, endpoint) ==
    LET baseUrl == IF client = "auth" THEN authBaseUrl ELSE chatBaseUrl
    IN /\ urlCur' = [client |-> client, baseUrl |-> baseUrl, endpoint |-> endpoint,
                     url |-> buildUrl(baseUrl, endpoint)]
       /\ urlPrev' = urlCur
       /\ UNCHANGED <<token, authBaseUrl, chatBaseUrl, inflight, last>>

NextUrl == \E client \in {"auth", "chat"}, endpoint \in Paths : BuildUrl(client, endpoint)

SpecUrl == InitUrl /\ [][NextUrl]_vars

----------------------------------------------------------------------------
(* Interleaved callers: public operations are started while others are     *)
(* still awaiting fetch, and responses arrive in any order.  An operation  *)
(* reads the token store only in Call and writes it only in the            *)
(* synchronous code that ends it, so the awaits in between (resp.json(),   *)
(* the promise hops) are folded into Settle.                               *)

ConcOps == {"login", "logout", "getCurrentUser", "getConversations"}

ConcResponses ==
    {r \in HttpResponses :
        /\ r.status \in {200, 401, 403, 500}
        /\ r.statusText = ""
        /\ r.ct \in JsonTypes
        /\ r.json \in {Obj(Undefined, Undefined, Undefined, Undefined),
                       Obj(Undefined, Undefined, Str("alice"), Str("t1"))}}
    \cup {[kind |-> "network", fetchError |-> NewError("Failed to fetch")]}

NextConc ==
    \/ \E s \in Slots, op \in ConcOps : Call(s, op, "")
    \/ \E s \in Slots, resp \in ConcResponses : Settle(s, resp)
    \/ \E s \in Slots, op \in UnimplementedOps : NotImplemented(s, op)

SpecConc == Init /\ [][NextConc]_vars

----------------------------------------------------------------------------
(* Properties *)

TokenOps == {"login", "register", "refreshToken"}

IsHttp(resp) == resp.kind = "http"
Is2xx(resp) == IsHttp(resp) /\ resp.status \in 200..299
IsJsonType(resp) == IsHttp(resp) /\ includes(resp.ct, "application/json")
EmptyObject == Obj(Undefined, Undefined, Undefined, Undefined)

\* C1: whatever the backend call of logout() does (2xx, non-2xx, network
\* exception), logout() resolves and the token store is empty when it does.
C1_LogoutAlwaysClears ==
    last.op = "logout" => last.outcome = "resolved" /\ token = Null

C1_Witness ==
    /\ last.op = "logout"
    /\ last.resp.kind = "network"
    /\ last.tokenBefore = Str("t1")
    /\ last.outcome = "resolved"
    /\ token = Null

C3_ChatOpsNormalize ==
    (last.op \in ChatOps /\ ~last.pipe.ok) =>
        /\ last.outcome = "rejected"
        /\ last.value.message = handle(last.pipe.value)
        /\ last.value.status = Undefined
        /\ last.value.body = Undefined

\* the fixed messages, as the specification lists them
FixedStatuses == {400, 401, 403, 404, 422, 500}

FixedMessage(status) ==
    CASE status = 400 -> "Invalid request parameters. Please check your input."
      [] status = 401 -> "Authentication required. Please log in again."
      [] status = 403 -> "You do not have permission to perform this action."
      [] status = 404 -> "The requested resource could not be found."
      [] status = 422 -> "Validation failed. Please correct the highlighted fields."
      [] status = 500 -> "A server error occurred. Please try again later."

\* C4: login, register and refreshToken answered with a status in
\* {400, 401, 403, 404, 422, 500} reject with exactly that status's fixed
\* message, whatever the response body holds.
C4_FixedMessages ==
    (last.op \in TokenOps /\ IsHttp(last.resp) /\ last.resp.status \in FixedStatuses) =>
        /\ last.outcome = "rejected"
        /\ last.value.message = FixedMessage(last.resp.status)

C4_Witness ==
    /\ last.op = "login"
    /\ IsHttp(last.resp) /\ last.resp.status = 401
    /\ IsJsonType(last.resp) /\ last.resp.json = EmptyObject
    /\ last.outcome = "rejected"
    /\ last.value.message = "Authentication required. Please log in again."

\* C5: when the network call throws, every public operation that issues a
\* request, logout excepted, rejects with a message containing
\* 'Network request failed'.
C5_NetworkMessage ==
    (last.op \in RequestOps \ {"logout"} /\ last.resp.kind = "network") =>
        /\ last.outcome = "rejected"
        /\ includes(last.value.message, "Network request failed")

\* the operations that hand makeRequest's result straight to the caller
PassThroughOps ==
    {"getCurrentUser", "getConversations", "getConversation", "createConversation",
     "getMessages", "sendMessage", "getExpertQueue", "getExpertProfile",
     "updateExpertProfile", "getExpertAssignmentHistory"}

NoValueOps == {"logout", "claimConversation", "unclaimConversation"}

\* the body of a JSON response as parsed, null when it does not parse
ParsedJson(resp) == IF resp.json = Throws THEN Null ELSE resp.json

UserOf(body) == IF body.t = "object" THEN body.user ELSE Undefined

\* C6 as stated: for every endpoint of both clients, a 2xx response with a
\* JSON content type (whose body parses to a value other than null) makes
\* the public operation resolve to the parsed body, unchanged.
C6_Original ==
    (last.op \in RequestOps /\ Is2xx(last.resp) /\ IsJsonType(last.resp)
       /\ ParsedJson(last.resp) # Null) =>
        /\ last.outcome = "resolved"
        /\ last.value = ParsedJson(last.resp)

\* C6 as amended: on a 2xx response with a JSON content type, getCurrentUser
\* and the nine chat operations that return the pipeline's result resolve to
\* the parsed body unchanged (null when it does not parse); login, register
\* and refreshToken resolve to the parsed body's user field, and reject when
\* the parsed body is null; logout, claimConversation and
\* unclaimConversation resolve to no value.
C6_PassThrough ==
    (last.op \in RequestOps /\ Is2xx(last.resp) /\ IsJsonType(last.resp)) =>
        LET body == ParsedJson(last.resp)
        IN /\ last.op \in PassThroughOps =>
                 last.outcome = "resolved" /\ last.value = body
           /\ last.op \in TokenOps =>
                 IF body = Null
                 THEN last.outcome = "rejected"
                 ELSE last.outcome = "resolved" /\ last.value = UserOf(body)
           /\ last.op \in NoValueOps =>
                 last.outcome = "resolved" /\ last.value = Undefined

C6_Witness ==
    /\ last.op = "getConversations"
    /\ IsHttp(last.resp) /\ last.resp.status = 200
    /\ IsJsonType(last.resp) /\ last.resp.json = Arr(<<"1">>)
    /\ last.tokenBefore = Null
    /\ last.outcome = "resolved"
    /\ last.value = Arr(<<"1">>)

\* the message the specification gives a non-2xx response
ExpectedMessage(statusText, body) ==
    IF body.t = "object" /\ body.error.t = "string" /\ body.error.s # ""
    THEN body.error.s
    ELSE IF body.t = "object" /\ body.errors.t = "array" /\ body.errors.a # <<>>
    THEN join(body.errors.a, "; ")
    ELSE IF statusText # "" THEN statusText
    ELSE "Request failed"

\* C7: for every non-2xx response the error makeRequest raises carries the
\* numeric status and the parsed body, and its message is the body's error
\* field when a non-empty string, else the errors array joined with '; '
\* when non-empty, else the status text when non-empty, else
\* 'Request failed'; {errors: ['A','B']} gives 'A; B', {error: 'X'} gives 'X'.
C7_PipelineError ==
    (last.op \in RequestOps /\ IsHttp(last.resp) /\ ~Is2xx(last.resp)) =>
        LET err == last.pipe.value
            body == readBody(last.resp)
        IN /\ ~last.pipe.ok
           /\ err.status = Num(last.resp.status)
           /\ err.body = body
           /\ err.message = ExpectedMessage(last.resp.statusText, body)
           /\ (body.t = "object" /\ body.error = Str("X")) => err.message = "X"
           /\ (body.t = "object" /\ body.error = Undefined
                 /\ body.errors = Arr(<<"A", "B">>)) => err.message = "A; B"

C7_Witness ==
    /\ last.op \in RequestOps
    /\ IsHttp(last.resp) /\ last.resp.status = 418
    /\ IsJsonType(last.resp)
    /\ last.resp.json = Obj(Str(""), Arr(<<"A", "B">>), Undefined, Undefined)
    /\ ~last.pipe.ok
    /\ last.pipe.value.message = "A; B"
    /\ last.pipe.value.status = Num(418)

endsWith(s, suffix) ==
    Len(s) >= Len(suffix) /\ SubSeq(s, Len(s) - Len(suffix) + 1, Len(s)) = suffix

CharAt(s, i) == SubSeq(s, i, i)

\* url is baseUrl, then one slash that has no slash on either side of it,
\* then the rest of the path
OneSeparatingSlash(baseUrl, url) ==
    LET k == Len(baseUrl) + 1
    IN /\ startsWith(url, baseUrl)
       /\ Len(url) >= k
       /\ CharAt(url, k) = "/"
       /\ (k > 1 => CharAt(url, k - 1) # "/")
       /\ (k < Len(url) => CharAt(url, k + 1) # "/")

WithoutLeadingSlash(path) ==
    IF startsWith(path, "/") THEN SubSeq(path, 2, Len(path)) ELSE path

\* C8 as stated: for every configured base URL and every endpoint path,
\* buildUrl's result has exactly one slash between the base URL and the path.
C8_Original ==
    urlCur # NoUrl => OneSeparatingSlash(urlCur.baseUrl, urlCur.url)

\* C8 as amended: for every base URL that does not end with a slash and
\* every endpoint path that does not start with two slashes, buildUrl's
\* result is the base URL, exactly one slash, and the path without its
\* leading slash; and for every base URL a path and the same path with a
\* slash put in front give the same URL, so buildUrl('conversations')
\* equals buildUrl('/conversations').
C8_BuildUrl ==
    /\ (urlCur # NoUrl /\ ~endsWith(urlCur.baseUrl, "/")
          /\ ~startsWith(urlCur.endpoint, "//")) =>
          /\ OneSeparatingSlash(urlCur.baseUrl, urlCur.url)
          /\ urlCur.url = urlCur.baseUrl \o "/" \o WithoutLeadingSlash(urlCur.endpoint)
    /\ (urlCur # NoUrl /\ urlPrev # NoUrl /\ urlCur.client = urlPrev.client
          /\ ~startsWith(urlPrev.endpoint, "/")
          /\ urlCur.endpoint = "/" \o urlPrev.endpoint) =>
          urlCur.url = urlPrev.url

C8_Witness ==
    /\ urlPrev # NoUrl /\ urlCur # NoUrl
    /\ urlPrev.client = "chat" /\ urlCur.client = "chat"
    /\ urlPrev.endpoint = "conversations"
    /\ urlCur.endpoint = "/conversations"
    /\ urlCur.url = "https://api.example.com/conversations"
    /\ urlPrev.url = urlCur.url

\* the Authorization header a request must carry for a given token store
ExpectedAuthorization(store) ==
    IF store.t = "string" /\ store.s # "" THEN Str("Bearer " \o store.s) ELSE Undefined

\* C9: in a sequential run every request sent by a public operation carries
\* 'Authorization: Bearer t' exactly when the token store holds a non-empty
\* token t, and none otherwise; a login/register/refreshToken that resolved
\* leaves the response's token in the store, logout() and a getCurrentUser()
\* answered 401/403 leave it empty, so the next request carries that token
\* or none.
C9_AuthorizationHeader ==
    /\ \A s \in Slots :
          inflight[s] # Idle =>
             inflight[s].request.headers.authorization = ExpectedAuthorization(token)
    /\ (last.op \in TokenOps /\ last.outcome = "resolved") =>
          token = (IF last.pipe.value.t = "object" THEN last.pipe.value.token ELSE Undefined)
    /\ last.op = "logout" => token = Null
    /\ (last.op = "getCurrentUser" /\ IsHttp(last.resp) /\ last.resp.status \in {401, 403}) =>
          token = Null

C9_Witness ==
    /\ inflight[1] # Idle
    /\ inflight[1].op = "getConversations"
    /\ token = Str("t1")
    /\ inflight[1].request.headers.authorization = Str("Bearer t1")

\* C10: whenever login, register or refreshToken rejects (non-2xx response,
\* network exception, or a 2xx response whose body is absent), the token
\* store holds what it held before the call.
C10_RejectKeepsToken ==
    (last.op \in TokenOps /\ last.outcome = "rejected") => token = last.tokenBefore

C10_Witness ==
    /\ last.op = "refreshToken"
    /\ Is2xx(last.resp) /\ IsJsonType(last.resp) /\ last.resp.json = Throws
    /\ last.outcome = "rejected"
    /\ last.tokenBefore = Str("t1")
    /\ token = Str("t1")

\* slot s held a request before the step and has settled in it
Settles(s) == inflight[s] # Idle /\ inflight'[s] = Idle

\* the store holds the token a login() has just resolved with: no call was
\* started since, so every busy slot was in flight when that login resolved
LoginTokenStored ==
    /\ last.op = "login" /\ last.outcome = "resolved"
    /\ token.t = "string" /\ token.s # ""

\* C11 as stated: a getCurrentUser() or logout() request that was already
\* in flight when a login() resolved and stored its token does not remove
\* that token when its response arrives.
C11_Original ==
    [][LoginTokenStored =>
          ~(\E s \in Slots :
               /\ Settles(s)
               /\ inflight[s].op \in {"getCurrentUser", "logout"}
               /\ token' # token)]_vars

\* C11 as amended: under interleaved calls the stored token, in particular
\* one stored by a login() that resolved, changes only in the step in
\* which a logout() settles, a getCurrentUser() is answered 401/403, or a
\* login/register/refreshToken resolves, whenever that request was sent; a
\* logout(), or a getCurrentUser() answered 401/403, that was already in
\* flight when the login resolved clears the new token when its response
\* arrives.
C11_TokenWrites ==
    [][/\ token' # token =>
             \E s \in Slots :
                /\ Settles(s)
                /\ \/ inflight[s].op = "logout"
                   \/ /\ inflight[s].op = "getCurrentUser"
                      /\ IsHttp(last'.resp) /\ last'.resp.status \in {401, 403}
                   \/ /\ inflight[s].op \in TokenOps
                      /\ last'.outcome = "resolved"
       /\ LoginTokenStored =>
             \A s \in Slots :
                (/\ Settles(s)
                 /\ \/ inflight[s].op = "logout"
                    \/ /\ inflight[s].op = "getCurrentUser"
                       /\ IsHttp(last'.resp) /\ last'.resp.status \in {401, 403})
                => token' = Null]_vars

\* a getCurrentUser() sent while the store was empty is answered 401 after a
\* login() stored t1, and the store is empty again
C11_Witness ==
    /\ last.op = "getCurrentUser"
    /\ IsHttp(last.resp) /\ last.resp.status = 401
    /\ last.sent = Undefined
    /\ last.tokenBefore = Str("t1")
    /\ last.outcome = "resolved" /\ last.value = Null
    /\ token = Null

====
